---- MODULE Spec2Model ----
(***************************************************************************)
(* A model of the KickLang tutor's session state holder (src/App.tsx) and  *)
(* of its two model adapters (src/services/geminiService.ts).              *)
(*                                                                         *)
(* The handlers of App are asynchronous: each runs synchronously up to its *)
(* await and resumes, in one piece, when the awaited promise settles.  One *)
(* action models the synchronous part, one the continuation.  Calls that   *)
(* are awaiting the network are kept in startCalls and sendCalls.          *)
(*                                                                         *)
(* Strings that the code only stores or compares are TLA+ strings.  Texts  *)
(* that the code searches (chat replies) are sequences of tokens, and      *)
(* String.prototype.includes is containment of a contiguous subsequence.   *)
(*                                                                         *)
(* Spec lets the handlers of App be called whenever App is mounted.        *)
(* SpecUI lets them be called only through the forms and buttons that the  *)
(* tree renders (SetupModal, ChatInterface, KnowledgeGraph), with the      *)
(* conditions under which these are enabled.                               *)
(***************************************************************************)
EXTENDS Integers, Sequences, FiniteSets, TLC

VARIABLES
    hasStarted,      \* App.tsx:23
    isLoading,       \* App.tsx:24
    isTyping,        \* App.tsx:25
    kickLangState,   \* App.tsx:27
    graphData,       \* App.tsx:34
    messages,        \* App.tsx:36
    chatHistoryRef,  \* App.tsx:39
    startCalls,      \* handleStartSession calls awaiting generateLearningGraph
    sendCalls,       \* handleSendMessage calls awaiting sendKickLangMessage
    nStarts,         \* number of handleStartSession calls made
    nSends,          \* number of handleSendMessage calls made
    now,             \* the last reading of Date.now()
    clsInput,        \* input of the author classifier (SpecClassify)
    clsOutput,       \* its results, in App and in its variant (SpecClassify)
    setupObjective,  \* SetupModal.tsx:10, the text of the setup form (SpecUI)
    chatInput        \* SetupModal.tsx:125, the text of the chat form (SpecUI)

vars == <<hasStarted, isLoading, isTyping, kickLangState, graphData, messages,
          chatHistoryRef, startCalls, sendCalls, nStarts, nSends, now,
          clsInput, clsOutput, setupObjective, chatInput>>

\* ------------------------------------------------------------------ bounds

MaxStarts == 1
MaxSends == 2
MaxFormStarts == 2
MaxTextLen == 4

\* The last reading of Date.now() that is explored.
MaxClock == 2

\* ------------------------------------------------------------------ types.ts

LearningStyle == {"Socratic", "Direct", "Hybrid"}

INITIAL_GRAPH == [nodes |-> <<>>, links |-> <<>>]

Node(id, label, status) == [id |-> id, label |-> label, status |-> status]

Link(source, target) == [source |-> source, target |-> target]

\* ------------------------------------------------------------------ inputs

\* Objectives handed to handleStartSession.
Objectives == {"Learn recursion"}

\* Node ids handed to handleNodeClick.
NodeIds == {"start", "ghost"}

\* The texts a response of the graph model call may carry (response.text).
T_EMPTY == ""
T_PROSE == "Sorry, I cannot help with that."
T_EMPTYGRAPH == "{\"nodes\":[],\"links\":[]}"
T_RECURSION == "{\"nodes\":[{\"id\":\"start\",\"label\":\"Start\",\"status\":\"active\"},{\"id\":\"n2\",\"label\":\"Base Case\",\"status\":\"pending\"}],\"links\":[{\"source\":\"start\",\"target\":\"n2\"}]}"
T_SIX == "{\"nodes\":[{\"id\":\"n1\",\"label\":\"\",\"status\":\"pending\"},{\"id\":\"start\",\"label\":\"Basics\",\"status\":\"active\"},{\"id\":\"n1\",\"label\":\"Base Case\",\"status\":\"completed\"},{\"id\":\"n4\",\"label\":\"Call Stack\",\"status\":\"pending\"},{\"id\":\"n5\",\"label\":\"Induction\",\"status\":\"pending\"},{\"id\":\"n6\",\"label\":\"Tail Calls\",\"status\":\"pending\"}],\"links\":[{\"source\":\"start\",\"target\":\"n1\"},{\"source\":\"n1\",\"target\":\"start\"},{\"source\":\"n4\",\"target\":\"n4\"},{\"source\":\"n5\",\"target\":\"zz\"}]}"
T_NONODES == "{\"error\":\"quota\"}"
T_ONE == "{\"nodes\":[{\"id\":\"n1\",\"label\":\"Loops\",\"status\":\"active\"}],\"links\":[]}"

GraphTexts == {T_EMPTY, T_PROSE, T_EMPTYGRAPH, T_RECURSION, T_SIX, T_NONODES}

\* How the graph model call ends: the promise rejects, or it resolves with a
\* response whose text is undefined or one of GraphTexts.
GenOutcomes ==
    {[kind |-> "rejects"], [kind |-> "noText"]}
        \cup {[kind |-> "text", text |-> t] : t \in GraphTexts}

G_RECURSION ==
    [nodes |-> <<Node("start", "Start", "active"), Node("n2", "Base Case", "pending")>>,
     links |-> <<Link("start", "n2")>>]

G_ONE == [nodes |-> <<Node("n1", "Loops", "active")>>, links |-> <<>>]

\* Six nodes, one of them "start"; a duplicate id, a first node with an empty
\* label, a cycle, a self-loop and a link to an id that is no node.
G_SIX ==
    [nodes |-> <<Node("n1", "", "pending"), Node("start", "Basics", "active"),
                 Node("n1", "Base Case", "completed"), Node("n4", "Call Stack", "pending"),
                 Node("n5", "Induction", "pending"), Node("n6", "Tail Calls", "pending")>>,
     links |-> <<Link("start", "n1"), Link("n1", "start"), Link("n4", "n4"),
                 Link("n5", "zz")>>]

\* JSON.parse on the texts of GraphTexts and on T_ONE: the value, or a
\* SyntaxError.
JSONparse(text) ==
    CASE text = T_EMPTYGRAPH -> [threw |-> FALSE, value |-> [nodes |-> <<>>, links |-> <<>>]]
      [] text = T_RECURSION -> [threw |-> FALSE, value |-> G_RECURSION]
      [] text = T_SIX -> [threw |-> FALSE, value |-> G_SIX]
      [] text = T_NONODES -> [threw |-> FALSE, value |-> [error |-> "quota"]]
      [] text = T_ONE -> [threw |-> FALSE, value |-> G_ONE]
      [] OTHER -> [threw |-> TRUE, value |-> [error |-> "SyntaxError"]]

\* ------------------------------------------------------------------ geminiService.ts

FallbackGraph == [nodes |-> <<Node("start", "Start", "active")>>, links |-> <<>>]

\* A JavaScript string is truthy unless it is empty.
Truthy(text) == text # ""

\* The try block of generateLearningGraph, given how its model call ends.
\* threw: the block raises (the call rejects, "No data returned", or the
\* SyntaxError of JSON.parse); value: what it returns.
GenerateTry(outcome) ==
    IF outcome.kind = "rejects"
    THEN [threw |-> TRUE, value |-> [error |-> "rejected"]]
    ELSE IF outcome.kind = "text" /\ Truthy(outcome.text)
    THEN JSONparse(outcome.text)
    ELSE [threw |-> TRUE, value |-> [error |-> "No data returned"]]

\* generateLearningGraph without its catch: what the try block raises reaches
\* the caller.
GenerateNoCatch(outcome) == GenerateTry(outcome)

\* generateLearningGraph repairing what it parsed: links to ids that are no
\* node are dropped.
GenerateRepaired(outcome) ==
    LET body == GenerateTry(outcome)
        ids(g) == {g.nodes[i].id : i \in 1..Len(g.nodes)}
        known(g) == SelectSeq(g.links,
                        LAMBDA l : l.source \in ids(g) /\ l.target \in ids(g))
    IN  IF body.threw
        THEN [threw |-> FALSE, value |-> FallbackGraph]
        ELSE IF "nodes" \in DOMAIN body.value
        THEN [threw |-> FALSE, value |-> [body.value EXCEPT !.links = known(body.value)]]
        ELSE [threw |-> FALSE, value |-> body.value]

\* generateLearningGraph rejecting what it parsed when two nodes share an id:
\* the fallback graph is returned instead.
GenerateValidated(outcome) ==
    LET body == GenerateTry(outcome)
        unique(g) == \A i, j \in 1..Len(g.nodes) : g.nodes[i].id = g.nodes[j].id => i = j
    IN  IF body.threw
        THEN [threw |-> FALSE, value |-> FallbackGraph]
        ELSE IF "nodes" \in DOMAIN body.value /\ ~unique(body.value)
        THEN [threw |-> FALSE, value |-> FallbackGraph]
        ELSE [threw |-> FALSE, value |-> body.value]

\* generateLearningGraph: the try block, and the catch that returns the
\* fallback graph.  threw: the promise it returns rejects; value: what it
\* resolves with.
generateLearningGraph(outcome) ==
    LET body == GenerateTry(outcome)
    IN  IF body.threw
        THEN [threw |-> FALSE, value |-> FallbackGraph]
        ELSE [threw |-> FALSE, value |-> body.value]

\* The system instruction's agent roster and the markers the classifier looks
\* for are made of these tokens.
Tokens == {"**", "ScopeGuard", "DebuggAI", "Dima", "w",
           "Orchestrator", "WePlan", "Codein", "AR-00L", "Kick_La_Metta"}

\* Every text of at most MaxTextLen tokens.
Texts == UNION {[1..n -> Tokens] : n \in 0..MaxTextLen}

\* The text handed to the n-th call of handleSendMessage: n tokens, so that the
\* texts of different calls differ.
SendText(n) == [i \in 1..n |-> "w"]

\* The texts a reply of the chat model may carry (result.text).
ReplyTexts == {<<"**", "ScopeGuard", "w">>, <<"w", "**", "Dima">>}

\* How the chat model call ends: ai.chats.create throws, the promise of
\* chat.sendMessage rejects, or it resolves with a result whose text is
\* undefined or one of ReplyTexts.
ChatOutcomes ==
    {[kind |-> "createThrows"], [kind |-> "sendRejects"], [kind |-> "noText"]}
        \cup {[kind |-> "text", text |-> t] : t \in ReplyTexts}

APOLOGY == <<"**", "SystemMonitor", ":** Neural core interrupt. Re-synchronizing swarm...">>

\* history.map(h => ({role: h.role === 'model' ? 'model' : 'user', parts: h.parts}))
FormatHistory(history) ==
    [i \in 1..Len(history) |->
        [role |-> IF history[i].role = "model" THEN "model" ELSE "user",
         text |-> history[i].text]]

\* sendKickLangMessage without its catch.
SendNoCatch(outcome) ==
    IF outcome.kind \in {"createThrows", "sendRejects"}
    THEN [threw |-> TRUE, defined |-> FALSE, text |-> <<>>]
    ELSE IF outcome.kind = "noText"
    THEN [threw |-> FALSE, defined |-> FALSE, text |-> <<>>]
    ELSE [threw |-> FALSE, defined |-> TRUE, text |-> outcome.text]

\* sendKickLangMessage, given how its model call ends.  threw: the promise it
\* returns rejects; defined: the value it resolves with is a string; text:
\* that string.
sendKickLangMessage(outcome) ==
    IF outcome.kind \in {"createThrows", "sendRejects"}
    THEN [threw |-> FALSE, defined |-> TRUE, text |-> APOLOGY]
    ELSE IF outcome.kind = "noText"
    THEN [threw |-> FALSE, defined |-> FALSE, text |-> <<>>]
    ELSE [threw |-> FALSE, defined |-> TRUE, text |-> outcome.text]

\* ------------------------------------------------------------------ App.tsx

HasNodes(graph) == "nodes" \in DOMAIN graph

\* The start node taken to be 'start' whatever the graph.
StartNodeFixed(graph) == "start"

\* graph.nodes.length > 0 ? graph.nodes[0].id : 'start'
StartNode(graph) == IF Len(graph.nodes) > 0 THEN graph.nodes[1].id ELSE "start"

\* The label of the first node taken as it is, also when it is empty.
StartLabelAsIs(graph) ==
    IF Len(graph.nodes) > 0 THEN graph.nodes[1].label ELSE "Start"

\* graph.nodes[0]?.label || 'Start'
StartLabel(graph) ==
    IF Len(graph.nodes) > 0 /\ Truthy(graph.nodes[1].label)
    THEN graph.nodes[1].label
    ELSE "Start"

WelcomeText(obj, graph) ==
    <<"Welcome! I've loaded the knowledge graph for ", "**", obj, "**",
      ". We are starting at ", "**", StartLabel(graph), "**",
      ". Should we dive right in with an example (Direct) or explore the concept together (Socratic)?">>

InitialMessage(obj, graph, t) ==
    [id |-> "init-1", role |-> "model", authorName |-> "AI_Tutor",
     text |-> WelcomeText(obj, graph), timestamp |-> t]

\* An entry of the model history that keeps the text and files it under user
\* whatever the role.
HistoryEntryAsUser(role, text) == [role |-> "user", text |-> text]

HistoryEntry(role, text) == [role |-> role, text |-> text]

\* The render of App throws when the session is started and graphData has no
\* node list (graphData.nodes.length); React then unmounts the whole tree.
Crashed == hasStarted /\ ~HasNodes(graphData)

\* A call whose promise is settled already (ai.chats.create threw): its
\* continuation is a microtask, which runs before any event or network reply.
MicrotaskPending == \E c \in sendCalls : c.createThrew

\* What the UI lets the user trigger: the tree is mounted and no continuation
\* is waiting to run.
Idle == ~Crashed /\ ~MicrotaskPending

Init ==
    /\ hasStarted = FALSE
    /\ isLoading = FALSE
    /\ isTyping = FALSE
    /\ kickLangState = [objective |-> "", learningStyle |-> "Socratic",
                        currentNodeId |-> "start", difficulty |-> "intermediate"]
    /\ graphData = INITIAL_GRAPH
    /\ messages = <<>>
    /\ chatHistoryRef = <<>>
    /\ startCalls = {}
    /\ sendCalls = {}
    /\ nStarts = 0
    /\ nSends = 0
    /\ now = 0
    /\ clsInput = <<>>
    /\ clsOutput = [app |-> "none", swarm |-> "none"]
    /\ setupObjective = ""
    /\ chatInput = <<>>

\* handleStartSession up to its await.  SetupModal, which holds the only
\* trigger, is rendered while the session is not started.
StartSession(obj) ==
    /\ ~hasStarted
    /\ Idle
    /\ isLoading' = TRUE
    /\ nStarts' = nStarts + 1
    /\ startCalls' = startCalls \cup {[call |-> nStarts + 1, obj |-> obj]}
    /\ UNCHANGED <<hasStarted, isTyping, kickLangState, graphData, messages,
                   chatHistoryRef, sendCalls, nSends, now, clsInput, clsOutput,
                   setupObjective, chatInput>>

\* handleStartSession from the await on without the finally block: the flag
\* is cleared on the path that reaches the end of the try block only.
StartCompleteNoFinally(c, outcome, t) ==
    LET r == generateLearningGraph(outcome)
        ok == ~r.threw /\ HasNodes(r.value)
    IN  /\ c \in startCalls
        /\ Idle
        /\ startCalls' = startCalls \ {c}
        /\ now' = IF ok THEN t ELSE now
        /\ graphData' = IF r.threw THEN graphData ELSE r.value
        /\ IF ok
           THEN /\ kickLangState' = [kickLangState EXCEPT !.objective = c.obj,
                                        !.currentNodeId = StartNode(r.value)]
                /\ messages' = <<InitialMessage(c.obj, r.value, t)>>
                /\ chatHistoryRef' = <<HistoryEntry("model", WelcomeText(c.obj, r.value))>>
                /\ hasStarted' = TRUE
           ELSE UNCHANGED <<kickLangState, messages, chatHistoryRef, hasStarted>>
        /\ isLoading' = IF ok THEN FALSE ELSE isLoading
        /\ UNCHANGED <<isTyping, sendCalls, nStarts, nSends, clsInput, clsOutput,
                       setupObjective, chatInput>>

\* handleStartSession from the await on: try, catch and finally.
StartComplete(c, outcome, t) ==
    LET r == generateLearningGraph(outcome)
        ok == ~r.threw /\ HasNodes(r.value)
    IN  /\ c \in startCalls
        /\ Idle
        /\ startCalls' = startCalls \ {c}
        /\ now' = IF ok THEN t ELSE now
        /\ graphData' = IF r.threw THEN graphData ELSE r.value
        /\ IF ok
           THEN /\ kickLangState' = [kickLangState EXCEPT !.objective = c.obj,
                                        !.currentNodeId = StartNode(r.value)]
                /\ messages' = <<InitialMessage(c.obj, r.value, t)>>
                /\ chatHistoryRef' = <<HistoryEntry("model", WelcomeText(c.obj, r.value))>>
                /\ hasStarted' = TRUE
           ELSE UNCHANGED <<kickLangState, messages, chatHistoryRef, hasStarted>>
        /\ isLoading' = FALSE
        /\ UNCHANGED <<isTyping, sendCalls, nStarts, nSends, clsInput, clsOutput,
                       setupObjective, chatInput>>

\* text.includes(pattern)
Includes(text, pattern) ==
    \E i \in 1..(Len(text) - Len(pattern) + 1) :
        SubSeq(text, i, i + Len(pattern) - 1) = pattern

\* The author heuristic with the marker that occurs first in the text winning.
detectAuthorByPosition(responseText) ==
    LET names == {"ScopeGuard", "DebuggAI", "Dima"}
        at(n) == {i \in 1..(Len(responseText) - 1) :
                    SubSeq(responseText, i, i + 1) = <<"**", n>>}
        found == {n \in names : at(n) # {}}
        pos(n) == CHOOSE i \in at(n) : \A j \in at(n) : i <= j
    IN  IF found = {} THEN "AI_Tutor"
        ELSE CHOOSE n \in found : \A m \in found : pos(n) <= pos(m)

\* The author heuristic knowing the SystemMonitor marker of the apology too.
detectAuthorSystem(responseText) ==
    IF Includes(responseText, <<"**", "ScopeGuard">>) THEN "ScopeGuard"
    ELSE IF Includes(responseText, <<"**", "DebuggAI">>) THEN "DebuggAI"
    ELSE IF Includes(responseText, <<"**", "Dima">>) THEN "Dima"
    ELSE IF Includes(responseText, <<"**", "SystemMonitor">>) THEN "SystemMonitor"
    ELSE "AI_Tutor"

\* The author heuristic without its default: a text with no marker gets no
\* persona name.
detectAuthorNoDefault(responseText) ==
    IF Includes(responseText, <<"**", "ScopeGuard">>) THEN "ScopeGuard"
    ELSE IF Includes(responseText, <<"**", "DebuggAI">>) THEN "DebuggAI"
    ELSE IF Includes(responseText, <<"**", "Dima">>) THEN "Dima"
    ELSE "undefined"

\* The author heuristic of handleSendMessage.
detectAuthor(responseText) ==
    IF Includes(responseText, <<"**", "ScopeGuard">>) THEN "ScopeGuard"
    ELSE IF Includes(responseText, <<"**", "DebuggAI">>) THEN "DebuggAI"
    ELSE IF Includes(responseText, <<"**", "Dima">>) THEN "Dima"
    ELSE "AI_Tutor"

\* The author heuristic of the variant of App in src/unnamed/part_003.
detectAuthorSwarm(responseText) ==
    IF Includes(responseText, <<"**", "Orchestrator">>) THEN "Orchestrator"
    ELSE IF Includes(responseText, <<"**", "ScopeGuard">>) THEN "ScopeGuard"
    ELSE IF Includes(responseText, <<"**", "DebuggAI">>) THEN "DebuggAI"
    ELSE IF Includes(responseText, <<"**", "Dima">>) THEN "Dima"
    ELSE IF Includes(responseText, <<"**", "WePlan">>) THEN "WePlan"
    ELSE IF Includes(responseText, <<"**", "Codein">>) THEN "Codein"
    ELSE IF Includes(responseText, <<"**", "AR-00L">>) THEN "AR-00L"
    ELSE IF Includes(responseText, <<"**", "Kick_La_Metta">>) THEN "Kick_La_Metta"
    ELSE "AI_Tutor"

\* [msg, ...prev]
PrependMessage(prev, msg) == <<msg>> \o prev

\* [...prev, msg]
AppendMessage(prev, msg) == Append(prev, msg)

\* The user message with its text trimmed away.
UserMessageBlank(text, t, ts) ==
    [id |-> ToString(t), role |-> "user", text |-> <<>>, timestamp |-> ts]

UserMessage(text, t, ts) ==
    [id |-> ToString(t), role |-> "user", text |-> text, timestamp |-> ts]

BotMessage(responseText, t, ts) ==
    [id |-> ToString(t + 1), role |-> "model", authorName |-> detectAuthor(responseText),
     text |-> responseText, timestamp |-> ts]

\* The label of the current node taken as it is, also when it is empty.
CurrentNodeLabelAsIs(graph, currentNodeId) ==
    LET hits == {i \in 1..Len(graph.nodes) : graph.nodes[i].id = currentNodeId}
    IN  IF hits = {} THEN "Unknown"
        ELSE graph.nodes[CHOOSE i \in hits : \A j \in hits : i <= j].label

\* graphData.nodes.find(n => n.id === currentNodeId)?.label || 'Unknown'
CurrentNodeLabel(graph, currentNodeId) ==
    LET hits == {i \in 1..Len(graph.nodes) : graph.nodes[i].id = currentNodeId}
    IN  IF hits = {} THEN "Unknown"
        ELSE LET first == CHOOSE i \in hits : \A j \in hits : i <= j
             IN  IF Truthy(graph.nodes[first].label)
                 THEN graph.nodes[first].label
                 ELSE "Unknown"

\* handleSendMessage up to its await.  ChatInterface, which holds the only
\* trigger, is rendered once the session is started.  t and ts are the two
\* readings of Date.now() of userMsg.  The handler does not touch the text of
\* the chat form, which its caller decides.
SendMessage(text, createThrows, t, ts) ==
    /\ hasStarted
    /\ Idle
    /\ nSends < MaxSends
    /\ LET history == Append(chatHistoryRef, HistoryEntry("user", text))
           request == [history |-> FormatHistory(history),
                       message |-> text,
                       context |-> [objective |-> kickLangState.objective,
                                    style |-> kickLangState.learningStyle,
                                    currentNode |-> CurrentNodeLabel(graphData,
                                                        kickLangState.currentNodeId),
                                    graph |-> graphData]]
       IN  /\ messages' = AppendMessage(messages, UserMessage(text, t, ts))
           /\ isTyping' = TRUE
           /\ chatHistoryRef' = history
           /\ sendCalls' = sendCalls \cup {[call |-> nSends + 1, text |-> text,
                                            request |-> request,
                                            createThrew |-> createThrows]}
    /\ nSends' = nSends + 1
    /\ now' = ts
    /\ UNCHANGED <<hasStarted, isLoading, kickLangState, graphData, startCalls,
                   nStarts, clsInput, clsOutput, setupObjective>>

\* handleSendMessage's continuation putting each reply right after the user
\* message it answers.
SendCompleteInOrder(c, outcome, t, ts) ==
    LET r == sendKickLangMessage(outcome)
        replied == ~r.threw /\ r.defined
        asked == {i \in 1..Len(messages) :
                    messages[i].role = "user" /\ messages[i].text = c.text}
        at == IF asked = {} THEN Len(messages)
              ELSE CHOOSE i \in asked : \A j \in asked : j <= i
    IN  /\ c \in sendCalls
        /\ ~Crashed
        /\ IF c.createThrew
           THEN outcome.kind = "createThrows"
           ELSE outcome.kind # "createThrows" /\ ~MicrotaskPending
        /\ sendCalls' = sendCalls \ {c}
        /\ IF replied
           THEN /\ messages' = SubSeq(messages, 1, at)
                                \o <<BotMessage(r.text, t, ts)>>
                                \o SubSeq(messages, at + 1, Len(messages))
                /\ chatHistoryRef' = Append(chatHistoryRef, HistoryEntry("model", r.text))
                /\ now' = ts
           ELSE UNCHANGED <<messages, chatHistoryRef, now>>
        /\ isTyping' = FALSE
        /\ UNCHANGED <<hasStarted, isLoading, kickLangState, graphData, startCalls,
                       nStarts, nSends, clsInput, clsOutput, setupObjective, chatInput>>

\* handleSendMessage's continuation without its finally: the flag is cleared
\* only where a reply is appended.
SendCompleteNoFinally(c, outcome, t, ts) ==
    LET r == sendKickLangMessage(outcome)
        replied == ~r.threw /\ r.defined
    IN  /\ c \in sendCalls
        /\ ~Crashed
        /\ IF c.createThrew
           THEN outcome.kind = "createThrows"
           ELSE outcome.kind # "createThrows" /\ ~MicrotaskPending
        /\ sendCalls' = sendCalls \ {c}
        /\ IF replied
           THEN /\ messages' = AppendMessage(messages, BotMessage(r.text, t, ts))
                /\ chatHistoryRef' = Append(chatHistoryRef, HistoryEntry("model", r.text))
                /\ now' = ts
                /\ isTyping' = FALSE
           ELSE UNCHANGED <<messages, chatHistoryRef, now, isTyping>>
        /\ UNCHANGED <<hasStarted, isLoading, kickLangState, graphData, startCalls,
                       nStarts, nSends, clsInput, clsOutput, setupObjective, chatInput>>

\* handleSendMessage from the await on: try, catch and finally.  t and ts are
\* the two readings of Date.now() of botMsg.
SendComplete(c, outcome, t, ts) ==
    LET r == sendKickLangMessage(outcome)
        replied == ~r.threw /\ r.defined
    IN  /\ c \in sendCalls
        /\ ~Crashed
        /\ IF c.createThrew
           THEN outcome.kind = "createThrows"
           ELSE outcome.kind # "createThrows" /\ ~MicrotaskPending
        /\ sendCalls' = sendCalls \ {c}
        /\ IF replied
           THEN /\ messages' = AppendMessage(messages, BotMessage(r.text, t, ts))
                /\ chatHistoryRef' = Append(chatHistoryRef, HistoryEntry("model", r.text))
                /\ now' = ts
           ELSE UNCHANGED <<messages, chatHistoryRef, now>>
        /\ isTyping' = FALSE
        /\ UNCHANGED <<hasStarted, isLoading, kickLangState, graphData, startCalls,
                       nStarts, nSends, clsInput, clsOutput, setupObjective, chatInput>>

\* handleNodeClick going back to 'start' instead of taking the id clicked.
handleNodeClickChecked(prev, nodeId) == [prev EXCEPT !.currentNodeId = "start"]

\* setKickLangState(prev => ({ ...prev, currentNodeId: nodeId }))
handleNodeClick(prev, nodeId) == [prev EXCEPT !.currentNodeId = nodeId]

\* handleNodeClick marking the nodes of the id clicked as completed in the
\* graph.
SelectNodeMarking(nodeId) ==
    /\ hasStarted
    /\ Idle
    /\ kickLangState' = handleNodeClick(kickLangState, nodeId)
    /\ graphData' = [graphData EXCEPT !.nodes =
                        [i \in 1..Len(graphData.nodes) |->
                            IF graphData.nodes[i].id = nodeId
                            THEN [graphData.nodes[i] EXCEPT !.status = "completed"]
                            ELSE graphData.nodes[i]]]
    /\ UNCHANGED <<hasStarted, isLoading, isTyping, messages, chatHistoryRef,
                   startCalls, sendCalls, nStarts, nSends, now, clsInput, clsOutput,
                   setupObjective, chatInput>>

SelectNode(nodeId) ==
    /\ hasStarted
    /\ Idle
    /\ kickLangState' = handleNodeClick(kickLangState, nodeId)
    /\ UNCHANGED <<hasStarted, isLoading, isTyping, graphData, messages, chatHistoryRef,
                   startCalls, sendCalls, nStarts, nSends, now, clsInput, clsOutput,
                   setupObjective, chatInput>>

\* toggleStyle cycling through the three styles.
toggleStyleCycle(prev) ==
    [prev EXCEPT !.learningStyle =
        CASE prev.learningStyle = "Socratic" -> "Direct"
          [] prev.learningStyle = "Direct" -> "Hybrid"
          [] OTHER -> "Socratic"]

\* prev.learningStyle === Socratic ? Direct : Socratic
toggleStyle(prev) ==
    [prev EXCEPT !.learningStyle =
        IF prev.learningStyle = "Socratic" THEN "Direct" ELSE "Socratic"]

\* The style switch offered before the session is started as well.
ToggleStyleUngated ==
    /\ Idle
    /\ kickLangState' = toggleStyle(kickLangState)
    /\ UNCHANGED <<hasStarted, isLoading, isTyping, graphData, messages, chatHistoryRef,
                   startCalls, sendCalls, nStarts, nSends, now, clsInput, clsOutput,
                   setupObjective, chatInput>>

ToggleStyle ==
    /\ hasStarted
    /\ Idle
    /\ kickLangState' = toggleStyle(kickLangState)
    /\ UNCHANGED <<hasStarted, isLoading, isTyping, graphData, messages, chatHistoryRef,
                   startCalls, sendCalls, nStarts, nSends, now, clsInput, clsOutput,
                   setupObjective, chatInput>>

\* handleSendMessage called with the text of the next call; the chat form is
\* not involved.
SendStep(ct) ==
    /\ SendMessage(SendText(nSends + 1), ct, now, now)
    /\ UNCHANGED chatInput

\* The handlers, with every reading of Date.now() equal to the last one.
Next ==
    \/ \E obj \in Objectives : nStarts < MaxStarts /\ StartSession(obj)
    \/ \E c \in startCalls, o \in GenOutcomes : StartComplete(c, o, now)
    \/ \E ct \in BOOLEAN : SendStep(ct)
    \/ \E c \in sendCalls, o \in ChatOutcomes : SendComplete(c, o, now, now)
    \/ \E id \in NodeIds : SelectNode(id)
    \/ ToggleStyle

Spec == Init /\ [][Next]_vars

\* ------------------------------------------------------------------ the classifier alone

InitClassify ==
    /\ hasStarted = FALSE
    /\ isLoading = FALSE
    /\ isTyping = FALSE
    /\ kickLangState = [objective |-> "", learningStyle |-> "Socratic",
                        currentNodeId |-> "start", difficulty |-> "intermediate"]
    /\ graphData = INITIAL_GRAPH
    /\ messages = <<>>
    /\ chatHistoryRef = <<>>
    /\ startCalls = {}
    /\ sendCalls = {}
    /\ nStarts = 0
    /\ nSends = 0
    /\ now = 0
    /\ clsInput \in Texts
    /\ clsOutput = [app |-> "none", swarm |-> "none"]
    /\ setupObjective = ""
    /\ chatInput = <<>>

Classify ==
    /\ clsOutput = [app |-> "none", swarm |-> "none"]
    /\ clsOutput' = [app |-> detectAuthor(clsInput), swarm |-> detectAuthorSwarm(clsInput)]
    /\ UNCHANGED <<hasStarted, isLoading, isTyping, kickLangState, graphData, messages,
                   chatHistoryRef, startCalls, sendCalls, nStarts, nSends, now, clsInput,
                   setupObjective, chatInput>>

NextClassify == Classify

SpecClassify == InitClassify /\ [][NextClassify]_vars

\* ------------------------------------------------------------------ the handlers under a running clock

\* The readings Date.now() can give from now on: the clock does not go back.
Readings == now..MaxClock

\* The handlers, with every reading of Date.now() at or after the last one;
\* the first reading of a handler gives the id of its message, the second the
\* timestamp.
NextClock ==
    \/ \E obj \in Objectives : nStarts < MaxStarts /\ StartSession(obj)
    \/ \E c \in startCalls, o \in GenOutcomes, t \in Readings : StartComplete(c, o, t)
    \/ \E ct \in BOOLEAN, t \in Readings :
          \E ts \in t..MaxClock :
              /\ SendMessage(SendText(nSends + 1), ct, t, ts)
              /\ UNCHANGED chatInput
    \/ \E c \in sendCalls, o \in ChatOutcomes, t \in Readings :
          \E ts \in t..MaxClock : SendComplete(c, o, t, ts)
    \/ \E id \in NodeIds : SelectNode(id)
    \/ ToggleStyle

SpecClock == Init /\ [][NextClock]_vars

\* ------------------------------------------------------------------ the forms

\* How the graph model call ends for a session started through the setup
\* form: as in GenOutcomes, or with a graph of one node that has a label of
\* its own.
FormGenOutcomes == GenOutcomes \cup {[kind |-> "text", text |-> T_ONE]}

\* What the user may type into the setup form.
ObjectiveInputs == {"", "   ", "Learn recursion", "  Learn recursion "}

\* String.prototype.trim on the strings of ObjectiveInputs.
trim(str) ==
    CASE str = "   " -> ""
      [] str = "  Learn recursion " -> "Learn recursion"
      [] OTHER -> str

\* What the user may type into the chat form, as tokens; " " is white space.
ChatInputs == {<<>>, <<" ">>, <<"w">>, <<" ", "w", " ">>}

RECURSIVE trimStart(_)
trimStart(text) ==
    IF text # <<>> /\ Head(text) = " " THEN trimStart(Tail(text)) ELSE text

RECURSIVE trimEnd(_)
trimEnd(text) ==
    IF text # <<>> /\ text[Len(text)] = " "
    THEN trimEnd(SubSeq(text, 1, Len(text) - 1))
    ELSE text

\* String.prototype.trim on a text of tokens.
trimTokens(text) == trimEnd(trimStart(text))

\* The effect of KnowledgeGraph hands copies of the nodes and links to
\* d3.forceLink, which raises on a link whose source or target is the id of no
\* node; with no nodes the effect returns before that.
KnowledgeGraphThrows(graph) ==
    /\ Len(graph.nodes) > 0
    /\ \E i \in 1..Len(graph.links) :
          \/ \A j \in 1..Len(graph.nodes) : graph.nodes[j].id # graph.links[i].source
          \/ \A j \in 1..Len(graph.nodes) : graph.nodes[j].id # graph.links[i].target

\* The tree is mounted: neither the render of App nor the effect of
\* KnowledgeGraph has raised.
Mounted == ~Crashed /\ ~(hasStarted /\ KnowledgeGraphThrows(graphData))

\* disabled={isLoading} of the setup form's text field.
SetupInputDisabled == isLoading

\* The submit button of the setup form without the loading flag.
SetupSubmitDisabledBlankOnly == ~Truthy(trim(setupObjective))

\* disabled={!objective.trim() || isLoading} of the setup form's submit button.
SetupSubmitDisabled == ~Truthy(trim(setupObjective)) \/ isLoading

\* onChange of the setup form's text field.
SetObjective(str) ==
    /\ ~hasStarted
    /\ Idle
    /\ ~SetupInputDisabled
    /\ setupObjective' = str
    /\ UNCHANGED <<hasStarted, isLoading, isTyping, kickLangState, graphData, messages,
                   chatHistoryRef, startCalls, sendCalls, nStarts, nSends, now,
                   clsInput, clsOutput, chatInput>>

\* SetupModal.handleSubmit, which the form raises while its submit button is
\* enabled: if (objective.trim()) onStart(objective).
SubmitSetup ==
    /\ ~hasStarted
    /\ ~SetupSubmitDisabled
    /\ Truthy(trim(setupObjective))
    /\ StartSession(setupObjective)

\* disabled={isTyping} of the chat form's text field.
ChatInputDisabled == isTyping

\* disabled={!input.trim() || isTyping} of the chat form's submit button.
ChatSubmitDisabled == trimTokens(chatInput) = <<>> \/ isTyping

\* onChange of the chat form's text field.
SetInput(text) ==
    /\ hasStarted
    /\ Idle
    /\ Mounted
    /\ ~ChatInputDisabled
    /\ chatInput' = text
    /\ UNCHANGED <<hasStarted, isLoading, isTyping, kickLangState, graphData, messages,
                   chatHistoryRef, startCalls, sendCalls, nStarts, nSends, now,
                   clsInput, clsOutput, setupObjective>>

\* ChatInterface.handleSubmit accepting a text while a call is outstanding and
\* leaving the text in the field.
SubmitChatAgain(createThrows) ==
    /\ hasStarted
    /\ Mounted
    /\ trimTokens(chatInput) # <<>>
    /\ SendMessage(chatInput, createThrows, now, now)
    /\ chatInput' = chatInput

\* ChatInterface.handleSubmit, which the form raises while its submit button
\* is enabled: if (!input.trim() || isTyping) return; onSendMessage(input);
\* setInput('').
SubmitChat(createThrows) ==
    /\ hasStarted
    /\ Mounted
    /\ ~ChatSubmitDisabled
    /\ ~(trimTokens(chatInput) = <<>> \/ isTyping)
    /\ SendMessage(chatInput, createThrows, now, now)
    /\ chatInput' = <<>>

\* A click handler that can report an id that no rendered node has.
ClickNodeAny ==
    /\ hasStarted
    /\ Mounted
    /\ \E id \in NodeIds : SelectNode(id)

\* A click on one of the circles KnowledgeGraph has drawn, one per node of the
\* graph: onNodeClick(d.id).
ClickNode ==
    /\ hasStarted
    /\ Mounted
    /\ \E i \in 1..Len(graphData.nodes) : SelectNode(graphData.nodes[i].id)

\* A click on the style button of App.
ClickStyle == Mounted /\ ToggleStyle

\* What the user can do through the forms and buttons the tree renders, and
\* the continuations of the handlers.
NextUI ==
    \/ \E str \in ObjectiveInputs : SetObjective(str)
    \/ nStarts < MaxFormStarts /\ SubmitSetup
    \/ \E c \in startCalls, o \in FormGenOutcomes : StartComplete(c, o, now)
    \/ \E text \in ChatInputs : SetInput(text)
    \/ \E ct \in BOOLEAN : nSends < MaxSends /\ SubmitChat(ct)
    \/ \E c \in sendCalls, o \in ChatOutcomes : SendComplete(c, o, now, now)
    \/ ClickNode
    \/ ClickStyle

SpecUI == Init /\ [][NextUI]_vars

\* ------------------------------------------------------------------ claims

IsPrefix(a, b) == Len(a) <= Len(b) /\ SubSeq(b, 1, Len(a)) = a

Last(seq) == seq[Len(seq)]

\* The steps of Spec, by handler.
SendCompleteStep(c, o) == SendComplete(c, o, now, now)

StartCompleteStep(c, o) == StartComplete(c, o, now)

\* The outcomes of the graph model call on which generateLearningGraph is to
\* fall back: the call raises, the text is absent or empty, or it is no JSON.
FailingGenOutcomes ==
    {o \in GenOutcomes :
        \/ o.kind \in {"rejects", "noText"}
        \/ o.kind = "text" /\ (o.text = "" \/ JSONparse(o.text).threw)}

\* The outcomes of the chat model call in which the call raises.
RaisingChatOutcomes == {[kind |-> "createThrows"], [kind |-> "sendRejects"]}

\* C1: every handleSendMessage call whose model call completes, with a reply,
\* with a failure inside the adapter or with a response that carries no text,
\* makes the log two messages longer: the user message at submission, and
\* one model message at completion.
C1_SendAddsTwo ==
    [][/\ \A ct \in BOOLEAN :
            SendStep(ct) =>
                /\ Len(messages') = Len(messages) + 1
                /\ Last(messages').role = "user"
       /\ \A c \in sendCalls, o \in ChatOutcomes :
            SendCompleteStep(c, o) =>
                /\ Len(messages') = Len(messages) + 1
                /\ Last(messages').role = "model"]_vars

\* C2: generateLearningGraph never throws, and when its model call raises,
\* returns no or an empty text, or returns a text that is no JSON, the handler
\* receives exactly the fallback graph: one node start/Start/active, no links.
C2_FallbackOnFailure ==
    [][\A c \in startCalls, o \in GenOutcomes :
          StartCompleteStep(c, o) =>
              /\ ~generateLearningGraph(o).threw
              /\ o \in FailingGenOutcomes =>
                    /\ graphData' = [nodes |-> <<[id |-> "start", label |-> "Start",
                                                  status |-> "active"]>>,
                                     links |-> <<>>]
                    /\ hasStarted']_vars

\* C2 witness: a session started on the fallback graph.
C2_Witness ==
    /\ hasStarted
    /\ graphData = [nodes |-> <<[id |-> "start", label |-> "Start", status |-> "active"]>>,
                    links |-> <<>>]

\* C3: sendKickLangMessage never throws, and when creating the chat or sending
\* the message raises, the handler receives one fixed string, the same for
\* both, which it appends as the reply.
C3_ApologyOnFailure ==
    [][\A c \in sendCalls, o \in ChatOutcomes :
          SendCompleteStep(c, o) =>
              /\ ~sendKickLangMessage(o).threw
              /\ o \in RaisingChatOutcomes =>
                    /\ Len(messages') = Len(messages) + 1
                    /\ Last(messages').text = APOLOGY
                    /\ Last(messages').role = "model"]_vars

\* C3 witness: two calls have failed in the adapter, and the apology has been
\* appended to the log as the reply of each.
C3_Witness ==
    /\ Len(messages) >= 5
    /\ messages[3].text = APOLOGY
    /\ messages[5].text = APOLOGY
    /\ sendCalls = {}

\* C4: when handleStartSession completes with a graph (a value that has a node
\* list), the session graph is that graph, currentNodeId is the id of its
\* first node, or "start" when it has no nodes, the objective is the one given,
\* the log holds exactly the welcome message, and the session is started.
C4_StartSession ==
    [][\A c \in startCalls, o \in GenOutcomes :
          (StartCompleteStep(c, o) /\ HasNodes(generateLearningGraph(o).value)) =>
              LET graph == generateLearningGraph(o).value
              IN  /\ graphData' = graph
                  /\ kickLangState'.currentNodeId =
                        IF graph.nodes = <<>> THEN "start" ELSE graph.nodes[1].id
                  /\ kickLangState'.objective = c.obj
                  /\ Len(messages') = 1
                  /\ messages'[1].id = "init-1"
                  /\ messages'[1].role = "model"
                  /\ hasStarted']_vars

\* C4 witness: a session started on a graph whose first node is not "start",
\* with that node current.
C4_Witness ==
    /\ hasStarted
    /\ graphData = G_SIX
    /\ kickLangState.currentNodeId = "n1"
    /\ kickLangState.objective = "Learn recursion"
    /\ Len(messages) = 1

\* C5: at submission, before the model call resolves, the log grows by exactly
\* one message, with role user and the submitted text, and the call is
\* outstanding; the completion of a call that fails (in the adapter, or on a
\* response without text) removes nothing from the log.
C5_OptimisticUserMessage ==
    [][/\ \A ct \in BOOLEAN :
            SendStep(ct) =>
                /\ Len(messages') = Len(messages) + 1
                /\ IsPrefix(messages, messages')
                /\ Last(messages').role = "user"
                /\ Last(messages').text = SendText(nSends + 1)
                /\ \E c \in sendCalls' : c.call = nSends + 1
       /\ \A c \in sendCalls, o \in ChatOutcomes :
            (SendCompleteStep(c, o) /\ o.kind # "text") =>
                IsPrefix(messages, messages')]_vars

\* C5 witness: a call has failed on a response without text, and its user
\* message is the last of the log.
C5_Witness ==
    /\ sendCalls = {}
    /\ nSends = 1
    /\ Len(messages) = 2
    /\ messages[2].role = "user"
    /\ messages[2].text = SendText(1)
    /\ ~isTyping

\* C6: once the session is started, every step of handleSendMessage,
\* handleNodeClick and toggleStyle leaves the previous log a prefix of the new.
C6_AppendOnly ==
    [][(/\ hasStarted
        /\ \/ \E ct \in BOOLEAN : SendStep(ct)
           \/ \E c \in sendCalls, o \in ChatOutcomes : SendCompleteStep(c, o)
           \/ \E id \in NodeIds : SelectNode(id)
           \/ ToggleStyle)
          => IsPrefix(messages, messages')]_vars

\* C6 witness: a log of five messages, welcome, user, model, user, model.
C6_Witness ==
    /\ Len(messages) = 5
    /\ messages[1].id = "init-1"
    /\ messages[2].role = "user"
    /\ messages[3].role = "model"
    /\ messages[4].role = "user"
    /\ messages[5].role = "model"

\* The persona markers in the order the classifier is to check them, in App
\* and in its variant.
PersonaOrder == <<"ScopeGuard", "DebuggAI", "Dima">>

SwarmOrder == <<"Orchestrator", "ScopeGuard", "DebuggAI", "Dima", "WePlan", "Codein",
                "AR-00L", "Kick_La_Metta">>

\* The first name of the list whose marker the text contains.
FirstPersona(order, text) ==
    LET hits == {i \in 1..Len(order) : Includes(text, <<"**", order[i]>>)}
    IN  IF hits = {} THEN "AI_Tutor"
        ELSE order[CHOOSE i \in hits : \A j \in hits : i <= j]

\* C7: the classifier returns the first marker of the fixed list that the text
\* contains, wherever the markers stand in the text, and AI_Tutor when the text
\* contains none; so does the classifier of the variant, for its longer list.
C7_FirstMarkerWins ==
    clsOutput.app # "none" =>
        /\ clsOutput.app = FirstPersona(PersonaOrder, clsInput)
        /\ clsOutput.swarm = FirstPersona(SwarmOrder, clsInput)

\* C7 witness: a text in which the Dima marker stands before the ScopeGuard
\* marker is classified ScopeGuard.
C7_Witness ==
    /\ clsInput = <<"**", "Dima", "**", "ScopeGuard">>
    /\ clsOutput.app = "ScopeGuard"
    /\ clsOutput.swarm = "ScopeGuard"

\* C8: the learning style starts as Socratic and is Socratic or Direct in every
\* state; it changes only in a step of toggleStyle, which flips it.
C8_StyleAlternates ==
    /\ kickLangState.learningStyle = "Socratic"
    /\ [](kickLangState.learningStyle \in {"Socratic", "Direct"})
    /\ [][/\ kickLangState'.learningStyle # kickLangState.learningStyle => ToggleStyle
          /\ ToggleStyle =>
                kickLangState'.learningStyle =
                    IF kickLangState.learningStyle = "Socratic"
                    THEN "Direct" ELSE "Socratic"]_vars

\* C8 witness: the style has been toggled to Direct.
C8_Witness == kickLangState.learningStyle = "Direct"

\* C9: handleNodeClick(id) makes id the current node, for every id, whether or
\* not the graph has a node with that id.
C9_SelectAnyNode ==
    [][\A id \in NodeIds :
          SelectNode(id) => kickLangState'.currentNodeId = id]_vars

\* C9 witness: the current node is an id that no node of the graph has.
C9_Witness ==
    /\ hasStarted
    /\ HasNodes(graphData)
    /\ kickLangState.currentNodeId = "ghost"
    /\ \A i \in 1..Len(graphData.nodes) : graphData.nodes[i].id # "ghost"

\* C10, as claimed: generateLearningGraph returns a graph of 6 to 10 nodes, one
\* of them with id "start", or exactly the fallback graph.
C10_SixToTenOrFallback ==
    [][\A c \in startCalls, o \in GenOutcomes :
          StartCompleteStep(c, o) =>
              LET graph == generateLearningGraph(o).value
              IN  \/ graph = FallbackGraph
                  \/ /\ HasNodes(graph)
                     /\ Len(graph.nodes) \in 6..10
                     /\ \E i \in 1..Len(graph.nodes) : graph.nodes[i].id = "start"]_vars

\* C10, amended: generateLearningGraph returns the value parsed from the text
\* of the response, unchanged, whatever its nodes are, or exactly the fallback
\* graph; the handler receives nothing else.
C10_ParsedOrFallback ==
    [][\A c \in startCalls, o \in GenOutcomes :
          StartCompleteStep(c, o) =>
              \/ graphData' = FallbackGraph
              \/ /\ o.kind = "text"
                 /\ ~JSONparse(o.text).threw
                 /\ graphData' = JSONparse(o.text).value]_vars

\* C10 witness: a session on the two-node graph of the end-to-end scenario,
\* which generateLearningGraph returned as parsed.
C10_Witness ==
    /\ hasStarted
    /\ graphData = G_RECURSION
    /\ Len(graphData.nodes) = 2

\* C11: a handleSendMessage call made while an earlier one is outstanding
\* appends its user message at once and leaves the earlier call outstanding;
\* whichever outstanding call completes with a reply (a text or the apology),
\* whether it was submitted before or after the others, its reply goes to the
\* end of the log at that moment, as a message that carries nothing of its
\* request, and the other calls stay outstanding.
C11_RepliesInCompletionOrder ==
    [][/\ \A ct \in BOOLEAN :
            (nSends' = nSends + 1 /\ sendCalls # {} /\ SendStep(ct)) =>
                /\ messages' = Append(messages, UserMessage(SendText(nSends + 1), now, now))
                /\ sendCalls \subseteq sendCalls'
                /\ Cardinality(sendCalls') = Cardinality(sendCalls) + 1
       /\ \A c \in sendCalls \ sendCalls', o \in ChatOutcomes :
            (sendKickLangMessage(o).defined /\ SendCompleteStep(c, o)) =>
                /\ Len(messages') = Len(messages) + 1
                /\ IsPrefix(messages, messages')
                /\ Last(messages').role = "model"
                /\ Last(messages').text = sendKickLangMessage(o).text
                /\ DOMAIN Last(messages') = {"id", "role", "authorName", "text", "timestamp"}
                /\ sendCalls' = sendCalls \ {c}]_vars

\* C11 witness: the log is welcome, user1, user2, reply, and the first call is
\* still outstanding: the reply in the log is that of the second call.
C11_Witness ==
    /\ Len(messages) = 4
    /\ messages[2].role = "user" /\ messages[2].text = SendText(1)
    /\ messages[3].role = "user" /\ messages[3].text = SendText(2)
    /\ messages[4].role = "model"
    /\ \E c \in sendCalls : c.call = 1 /\ sendCalls = {c}

\* C12: through the setup form at most one handleStartSession call awaits
\* generateLearningGraph at any time: while a call is outstanding the loading
\* flag is set and the submit button and the text field of the form are
\* disabled, and the flag is set only while a call is outstanding.
C12_OneStartOutstanding ==
    /\ Cardinality(startCalls) <= 1
    /\ startCalls # {} => isLoading /\ SetupSubmitDisabled /\ SetupInputDisabled
    /\ isLoading => startCalls # {}

\* C12 witness: a second call is outstanding, after a first that was made and
\* has finished without starting the session, and the form holds an objective:
\* only the loading flag disables its submit button.
C12_Witness ==
    /\ nStarts = 2
    /\ Cardinality(startCalls) = 1
    /\ Truthy(trim(setupObjective))
    /\ isLoading
    /\ ~hasStarted

\* C13: for a message sent through the chat form, isTyping is true as long as
\* its model call is outstanding; the step in which the call completes clears
\* it, whether the call ends with a reply, with the apology or with a response
\* without text, on which the handler itself raises; and nothing else clears
\* it: no timeout and no cancellation, so that it stays set for as long as the
\* call does not complete.
C13_TypingUntilCompletion ==
    /\ [](sendCalls # {} => isTyping)
    /\ [][/\ \A c \in sendCalls, o \in ChatOutcomes :
                SendCompleteStep(c, o) => ~isTyping'
          /\ (isTyping /\ ~isTyping') =>
                \E c \in sendCalls, o \in ChatOutcomes : SendCompleteStep(c, o)]_vars

\* C13 witness: a call made through the chat form has completed on a response
\* without text; the handler raised, nothing was appended after the user
\* message, and the flag is cleared.
C13_Witness ==
    /\ hasStarted
    /\ nSends = 1
    /\ sendCalls = {}
    /\ Len(messages) = 2
    /\ messages[2].role = "user"
    /\ trimTokens(messages[2].text) # <<>>
    /\ ~isTyping

\* C14: when the chat model call raises, the continuation of handleSendMessage
\* appends the apology to the log as a message of role model and author
\* AI_Tutor, with the fields of any reply, appends it to the model history
\* with role model, and changes nothing else but the processing flag and the
\* set of outstanding calls: nothing in the state tells the turn has failed.
C14_FailureRecordedAsReply ==
    [][\A c \in sendCalls, o \in RaisingChatOutcomes :
          SendCompleteStep(c, o) =>
              /\ messages' = Append(messages,
                                [id |-> ToString(now + 1), role |-> "model",
                                 authorName |-> "AI_Tutor", text |-> APOLOGY,
                                 timestamp |-> now])
              /\ BotMessage(APOLOGY, now, now) = Last(messages')
              /\ chatHistoryRef' = Append(chatHistoryRef,
                                      [role |-> "model", text |-> APOLOGY])
              /\ UNCHANGED <<hasStarted, isLoading, kickLangState, graphData,
                             startCalls, nStarts, nSends>>]_vars

\* C14 witness: the apology is the last message of the log, by AI_Tutor, and
\* the last entry of the model history, and no call is outstanding.
C14_Witness ==
    /\ Len(messages) = 3
    /\ messages[3].text = APOLOGY
    /\ messages[3].role = "model"
    /\ messages[3].authorName = "AI_Tutor"
    /\ Len(chatHistoryRef) = 3
    /\ chatHistoryRef[3] = [role |-> "model", text |-> APOLOGY]
    /\ sendCalls = {}
    /\ ~isTyping

\* C15: when the graph model call returns a non-empty text that is JSON,
\* generateLearningGraph returns the parsed value as it is, and
\* handleStartSession stores it as it is: the same nodes and links, in the
\* same order and with the same values, also when two nodes share an id, when
\* the links form a cycle and when a link names an id that is no node.
C15_ParsedVerbatim ==
    [][\A c \in startCalls, t \in GraphTexts :
          (/\ StartCompleteStep(c, [kind |-> "text", text |-> t])
           /\ Truthy(t)
           /\ ~JSONparse(t).threw) =>
              /\ generateLearningGraph([kind |-> "text", text |-> t]).value
                    = JSONparse(t).value
              /\ graphData' = JSONparse(t).value
              /\ t = T_SIX =>
                    /\ [i \in 1..6 |-> graphData'.nodes[i].id]
                          = <<"n1", "start", "n1", "n4", "n5", "n6">>
                    /\ [i \in 1..6 |-> graphData'.nodes[i].status]
                          = <<"pending", "active", "completed", "pending",
                              "pending", "pending">>
                    /\ graphData'.links
                          = <<[source |-> "start", target |-> "n1"],
                              [source |-> "n1", target |-> "start"],
                              [source |-> "n4", target |-> "n4"],
                              [source |-> "n5", target |-> "zz"]>>]_vars

\* C15 witness: the session graph has two nodes of one id, a cycle, a
\* self-loop and a link to an id that is no node, as the response had them.
C15_Witness ==
    /\ hasStarted
    /\ HasNodes(graphData)
    /\ Len(graphData.nodes) = 6
    /\ graphData.nodes[1].id = graphData.nodes[3].id
    /\ graphData.links[1].source = graphData.links[2].target
    /\ graphData.links[1].target = graphData.links[2].source
    /\ graphData.links[3].source = graphData.links[3].target
    /\ \A i \in 1..6 : graphData.nodes[i].id # graphData.links[4].target

\* C16, as claimed: every objective handed to generateLearningGraph by a
\* session started through the setup form is non-empty after trimming and is
\* its own trimmed form, that is, has no leading or trailing white space.
C16_ObjectiveTrimmed ==
    \A c \in startCalls :
        /\ Truthy(trim(c.obj))
        /\ trim(c.obj) = c.obj

\* C17: for every text the classifier of App returns one of its four persona
\* names and the classifier of the variant one of its nine, AI_Tutor among
\* them for a text without marker; and classifying the same text once more
\* gives the same names.
C17_TotalAndDeterministic ==
    clsOutput.app # "none" =>
        /\ clsOutput.app \in {"ScopeGuard", "DebuggAI", "Dima", "AI_Tutor"}
        /\ clsOutput.swarm \in {"Orchestrator", "ScopeGuard", "DebuggAI", "Dima", "WePlan",
                                "Codein", "AR-00L", "Kick_La_Metta", "AI_Tutor"}
        /\ clsOutput = [app |-> detectAuthor(clsInput),
                        swarm |-> detectAuthorSwarm(clsInput)]

\* C17 witness: a text that holds the pieces of a marker but no marker is
\* classified AI_Tutor by both classifiers.
C17_Witness ==
    /\ clsInput = <<"**", "w", "Dima", "**">>
    /\ clsOutput.app = "AI_Tutor"
    /\ clsOutput.swarm = "AI_Tutor"

\* C18: when handleStartSession completes with a graph (a value that has a
\* node list), it seeds the log: the log is one message of role
\* model and author AI_Tutor whose text names, after "We are starting at", the
\* label of the first node of the graph returned, or "Start" when the graph
\* has no node or the label of its first node is empty; and the model history
\* is exactly one entry, of role model, with the text of that message.
C18_WelcomeMessage ==
    [][\A c \in startCalls, o \in FormGenOutcomes :
          (StartCompleteStep(c, o) /\ HasNodes(generateLearningGraph(o).value)) =>
              LET graph == generateLearningGraph(o).value
                  label == IF graph.nodes = <<>> THEN "Start"
                           ELSE IF graph.nodes[1].label = "" THEN "Start"
                           ELSE graph.nodes[1].label
              IN  /\ Len(messages') = 1
                  /\ messages'[1].role = "model"
                  /\ messages'[1].authorName = "AI_Tutor"
                  /\ Includes(messages'[1].text,
                              <<". We are starting at ", "**", label, "**">>)
                  /\ Includes(messages'[1].text, <<"**", c.obj, "**">>)
                  /\ chatHistoryRef' = <<[role |-> "model", text |-> messages'[1].text]>>]_vars

\* C18 witness: a session just started on a graph whose first node has an
\* empty label: the welcome message names "Start", and the model history is
\* that message alone.
C18_Witness ==
    /\ hasStarted
    /\ HasNodes(graphData)
    /\ Len(graphData.nodes) > 0
    /\ graphData.nodes[1].label = ""
    /\ messages[1].text[7] = "Start"
    /\ Len(chatHistoryRef) = 1
    /\ chatHistoryRef[1].role = "model"
    /\ chatHistoryRef[1].text = messages[1].text

\* The call that a step of handleSendMessage has added to the outstanding ones.
NewSendCalls == sendCalls' \ sendCalls

\* C19, as claimed: the context handed to the model call at submission holds
\* the objective and the learning style of that moment and, as current node,
\* the label of a node whose id is currentNodeId, or "Unknown" when the graph
\* has no node of that id; handleNodeClick and toggleStyle leave the
\* outstanding calls and their contexts as they are.
C19_ContextAtSubmission ==
    [][/\ \A ct \in BOOLEAN :
            SendStep(ct) =>
                \E c \in NewSendCalls :
                    LET ctx == c.request.context
                        hits == {i \in 1..Len(graphData.nodes) :
                                    graphData.nodes[i].id = kickLangState.currentNodeId}
                    IN  /\ ctx.objective = kickLangState.objective
                        /\ ctx.style = kickLangState.learningStyle
                        /\ IF hits = {} THEN ctx.currentNode = "Unknown"
                           ELSE \E i \in hits : ctx.currentNode = graphData.nodes[i].label
       /\ ((\E id \in NodeIds : SelectNode(id)) \/ ToggleStyle) =>
            sendCalls' = sendCalls]_vars

\* C19, amended: the context handed to the model call at submission holds the
\* objective, the learning style and the graph of that moment and, as current
\* node, the label of the first node whose id is currentNodeId, or "Unknown"
\* when the graph has no node of that id or when that label is empty;
\* handleNodeClick and toggleStyle leave the outstanding calls and their
\* contexts as they are.
C19_ContextSnapshot ==
    [][/\ \A ct \in BOOLEAN :
            (nSends' = nSends + 1 /\ SendStep(ct)) =>
                \E c \in NewSendCalls :
                    LET ctx == c.request.context
                        hits == {i \in 1..Len(graphData.nodes) :
                                    graphData.nodes[i].id = kickLangState.currentNodeId}
                        first == CHOOSE i \in hits : \A j \in hits : i <= j
                    IN  /\ NewSendCalls = {c}
                        /\ ctx.objective = kickLangState.objective
                        /\ ctx.style = kickLangState.learningStyle
                        /\ ctx.graph = graphData
                        /\ ctx.currentNode =
                              IF hits = {} THEN "Unknown"
                              ELSE IF graphData.nodes[first].label = "" THEN "Unknown"
                              ELSE graphData.nodes[first].label
       /\ ((\E id \in NodeIds : SelectNode(id)) \/ ToggleStyle) =>
            sendCalls' = sendCalls]_vars

\* C19 witness: a call is outstanding whose context holds the style Socratic
\* and the current node "Unknown", taken at submission on a graph whose node
\* "start" has the label "Basics"; since then the style has been toggled to
\* Direct and "start" has been selected.
C19_Witness ==
    /\ hasStarted
    /\ graphData = G_SIX
    /\ kickLangState.learningStyle = "Direct"
    /\ kickLangState.currentNodeId = "start"
    /\ \E c \in sendCalls :
          /\ c.request.context.style = "Socratic"
          /\ c.request.context.currentNode = "Unknown"
          /\ c.request.context.graph = G_SIX

\* C20: graphData changes only in the continuation of handleStartSession,
\* which stores the value returned in place of the old one; a step that
\* changes it, nodes, links or statuses, is no step of handleSendMessage,
\* handleNodeClick or toggleStyle; handleNodeClick changes currentNodeId and nothing else
\* of the session state, toggleStyle learningStyle and nothing else, and both
\* leave the log and the model history as they are.
C20_Frame ==
    [][/\ graphData' # graphData =>
            \E c \in startCalls, o \in GenOutcomes :
                /\ StartCompleteStep(c, o)
                /\ graphData' = generateLearningGraph(o).value
       /\ graphData' # graphData =>
            ~(\/ \E ct \in BOOLEAN : SendStep(ct)
              \/ \E c \in sendCalls, o \in ChatOutcomes : SendCompleteStep(c, o)
              \/ \E id \in NodeIds : SelectNode(id)
              \/ ToggleStyle)
       /\ \A id \in NodeIds :
            SelectNode(id) =>
                /\ kickLangState'.objective = kickLangState.objective
                /\ kickLangState'.learningStyle = kickLangState.learningStyle
                /\ kickLangState'.difficulty = kickLangState.difficulty
                /\ DOMAIN kickLangState' = DOMAIN kickLangState
                /\ messages' = messages
                /\ chatHistoryRef' = chatHistoryRef
       /\ ToggleStyle =>
            /\ kickLangState'.objective = kickLangState.objective
            /\ kickLangState'.currentNodeId = kickLangState.currentNodeId
            /\ kickLangState'.difficulty = kickLangState.difficulty
            /\ DOMAIN kickLangState' = DOMAIN kickLangState
            /\ messages' = messages
            /\ chatHistoryRef' = chatHistoryRef]_vars

\* C20 witness: after a node was selected, the style toggled and a message
\* sent and answered, the graph is the one the session was started on, and
\* objective and difficulty are as they were.
C20_Witness ==
    /\ hasStarted
    /\ graphData = G_RECURSION
    /\ kickLangState = [objective |-> "Learn recursion", learningStyle |-> "Direct",
                        currentNodeId |-> "ghost", difficulty |-> "intermediate"]
    /\ Len(messages) = 3
    /\ sendCalls = {}

\* C21, as claimed: the request a step of handleSendMessage hands to the model
\* call carries the new text once: its history is the model history as it was
\* before the step, in which no entry carries the new text, and the new text
\* is its message.
C21_NewTextOnce ==
    [][\A ct \in BOOLEAN :
          (nSends' = nSends + 1 /\ SendStep(ct)) =>
              \A c \in NewSendCalls :
                  /\ c.request.message = SendText(nSends + 1)
                  /\ c.request.history = FormatHistory(chatHistoryRef)
                  /\ \A i \in 1..Len(c.request.history) :
                        c.request.history[i].text # c.request.message]_vars

\* C22: in every state the model history and the log are of one length, and
\* entry by entry of the same role and text, whatever the order in which
\* calls are made and complete and however they complete.
C22_HistoryMatchesLog ==
    /\ Len(chatHistoryRef) = Len(messages)
    /\ \A i \in 1..Len(messages) :
          /\ chatHistoryRef[i].role = messages[i].role
          /\ chatHistoryRef[i].text = messages[i].text

\* C22 witness: two calls were outstanding together and have completed, one
\* with a reply and one on a response without text: the log and the history
\* hold the welcome, the two user messages and the one reply.
C22_Witness ==
    /\ hasStarted
    /\ nSends = 2
    /\ sendCalls = {}
    /\ Len(chatHistoryRef) = 4
    /\ chatHistoryRef[2].role = "user"
    /\ chatHistoryRef[3].role = "user"
    /\ chatHistoryRef[4].role = "model"
    /\ messages[4].role = "model"

\* C23: through the chat form at most one handleSendMessage call awaits the
\* model at any time: while a call is outstanding isTyping is set and the
\* form's submit button and text field are disabled; a submission is accepted
\* only while isTyping is false and the text is not empty after trimming, and
\* every accepted submission hands the text on and leaves the field empty.
C23_OneSendOutstanding ==
    /\ [](/\ Cardinality(sendCalls) <= 1
          /\ sendCalls # {} => isTyping /\ ChatSubmitDisabled /\ ChatInputDisabled)
    /\ [][\A ct \in BOOLEAN :
            (nSends' = nSends + 1 /\ SubmitChat(ct)) =>
                /\ ~isTyping
                /\ sendCalls = {}
                /\ trimTokens(chatInput) # <<>>
                /\ \E c \in sendCalls' : sendCalls' = {c} /\ c.text = chatInput
                /\ chatInput' = <<>>]_vars

\* C23 witness: a second text has been accepted, after the first call has
\* completed; its call is the only one outstanding, the field is empty and
\* the form is disabled.
C23_Witness ==
    /\ nSends = 2
    /\ Cardinality(sendCalls) = 1
    /\ isTyping
    /\ chatInput = <<>>
    /\ Len(messages) >= 3
    /\ Last(messages).role = "user"

\* C24, as claimed: in every state in which a handleSendMessage call awaits
\* the model, isTyping is true, also when several calls are outstanding.
C24_TypingWhileOutstanding == sendCalls # {} => isTyping


\* C25: when nodes are selected only by clicks on the circles KnowledgeGraph
\* has drawn, in every state of a started session whose graph has at least
\* one node, currentNodeId is the id of some node of that graph.
C25_CurrentNodeInGraph ==
    (hasStarted /\ HasNodes(graphData) /\ Len(graphData.nodes) > 0) =>
        \E i \in 1..Len(graphData.nodes) :
            graphData.nodes[i].id = kickLangState.currentNodeId

\* A started session on the two-node graph in which the second node has been
\* clicked.
C25_Witness ==
    /\ hasStarted
    /\ graphData = G_RECURSION
    /\ kickLangState.currentNodeId = "n2"


\* The outcomes of the graph model call after which handleStartSession raises
\* behind its await: generateLearningGraph raised, or it returned a value
\* without a node list.
RaisingStartOutcomes ==
    {o \in FormGenOutcomes :
        LET r == generateLearningGraph(o) IN r.threw \/ ~HasNodes(r.value)}

\* C26: isLoading is true exactly in the states in which a handleStartSession
\* call is outstanding; a submission of the setup form sets it and every
\* completion clears it; a completion in which the handler raises leaves the
\* session not started and the log empty, and leaves the setup form's submit
\* enabled, so that a start can be triggered again.
C26_LoadingWhileStarting ==
    /\ [](isLoading <=> startCalls # {})
    /\ [][SubmitSetup => isLoading' /\ startCalls' # {}]_vars
    /\ [][\A c \in startCalls, o \in FormGenOutcomes :
            StartCompleteStep(c, o) =>
                /\ ~isLoading'
                /\ o \in RaisingStartOutcomes =>
                      /\ ~hasStarted'
                      /\ messages' = <<>>
                      /\ ~SetupSubmitDisabled']_vars

\* A second start is outstanding after the first one ended with the handler
\* raising on a result without a node list.
C26_Witness ==
    /\ nStarts = 2
    /\ startCalls # {}
    /\ isLoading
    /\ ~hasStarted
    /\ ~HasNodes(graphData)
    /\ messages = <<>>


\* C27: a started session stays started; from then on no handleStartSession
\* call begins or is outstanding, the objective and the graph stay as they
\* are and the log only grows; while the session is not started no message
\* has been sent, no node selected and the style not switched.
C27_StartedForGood ==
    /\ [](~hasStarted =>
            /\ messages = <<>>
            /\ chatHistoryRef = <<>>
            /\ sendCalls = {}
            /\ nSends = 0
            /\ kickLangState.learningStyle = "Socratic"
            /\ kickLangState.currentNodeId = "start")
    /\ [](hasStarted => startCalls = {} /\ ~isLoading)
    /\ [][hasStarted =>
            /\ hasStarted'
            /\ nStarts' = nStarts
            /\ startCalls' = startCalls
            /\ kickLangState'.objective = kickLangState.objective
            /\ graphData' = graphData
            /\ IsPrefix(messages, messages')]_vars

\* A started session in which two messages were sent and answered, the second
\* node was selected and the style switched.
C27_Witness ==
    /\ hasStarted
    /\ nSends = 2
    /\ sendCalls = {}
    /\ Len(messages) = 5
    /\ kickLangState.learningStyle = "Direct"
    /\ kickLangState.currentNodeId = "n2"
    /\ kickLangState.objective = "  Learn recursion "


\* C28, as claimed: in every state the ids of the messages of the log are
\* pairwise distinct, whatever readings the clock gives as long as it does
\* not go back.
C28_DistinctIds ==
    \A i, j \in 1..Len(messages) : i # j => messages[i].id # messages[j].id

====
